---- MODULE Spec2Model ----
(***************************************************************************)
(* Model of enkube/diff.py: the interleaver, the hierarchy builder         *)
(* (gather_objects), the two-level diff engine (calculate_changes,         *)
(* diff_ns, diff_obj) and the loop of the diff command that consumes it.   *)
(*                                                                         *)
(* Python values are represented as follows.                               *)
(*   - the value None is the empty sequence and any other optional value *)
(*     v is <<v>>;                                                         *)
(*   - a key that a dict does not have is the field value Absent, which    *)
(*     is neither None nor <<v>>: d[key] and "key in d" tell Absent from   *)
(*     None, d.get(key) turns Absent into None;                            *)
(*   - an OrderedDict is [id, keys, vals]: the insertion-ordered keys, the *)
(*     values at the same positions, and the identity of the object        *)
(*     (what the "is" operator compares);                                  *)
(*   - a tuple is a TLA+ sequence; an event ('add_ns', (ns,)) is           *)
(*     <<"add_ns", <<ns>>>>.                                             *)
(***************************************************************************)
EXTENDS Integers, Sequences, FiniteSets, TLC

VARIABLES pc, iters, ilv, out, rendered, refs, alias, quiet, list_, local, cluster, gen, events, found_changes, exit_status

vars == <<pc, iters, ilv, out, rendered, refs, alias, quiet, list_, local, cluster, gen, events, found_changes, exit_status>>

ilvVars == <<iters, ilv, out>>

cliVars == <<rendered, refs, alias, quiet, list_, local, cluster, gen, events, found_changes, exit_status>>

(***************************************************************************)
(* Bounds of the model.                                                    *)
(***************************************************************************)
MaxSources == 3

MaxItems == 2

MaxRendered == 2

MaxRefs == 2

MaxGather == 3

(***************************************************************************)
(* Python values.                                                          *)
(***************************************************************************)
None == <<>>

Some(v) == <<v>>

\* The field value of a key the dict does not have.
Absent == <<"absent", "key">>

\* d.get(key): None when the key is absent, its value (None included)
\* otherwise.
dict_get(d, key) == IF d[key] = Absent THEN None ELSE d[key]

Range(s) == {s[j] : j \in 1..Len(s)}

SeqsUpTo(S, n) == UNION {[1..m -> S] : m \in 0..n}

(***************************************************************************)
(* collections.OrderedDict.                                                *)
(***************************************************************************)
OrderedDict(id) == [id |-> id, keys |-> <<>>, vals |-> <<>>]

od_has(d, k) == \E j \in 1..Len(d.keys) : d.keys[j] = k

od_index(d, k) == CHOOSE j \in 1..Len(d.keys) : d.keys[j] = k

od_get(d, k) == d.vals[od_index(d, k)]

od_set(d, k, v) ==
    IF od_has(d, k)
    THEN [d EXCEPT !.vals[od_index(d, k)] = v]
    ELSE [d EXCEPT !.keys = Append(@, k), !.vals = Append(@, v)]

(***************************************************************************)
(* interleave, a generator over N sources.  Its state is the deque q of    *)
(* (i, iter(i)) pairs and the pair popped by the iteration that is         *)
(* suspended at the yield (held), which line 36 appends on resumption.     *)
(* An iterator over a source is the sequence of the items it has left.     *)
(***************************************************************************)
interleave(its) ==
    [q |-> [j \in 1..Len(its) |-> [src |-> its[j].id, rest |-> its[j].keys]],
     held |-> <<>>]

interleave_loop_break(q) ==
    IF q = <<>> \/ Head(q).rest = <<>>
    THEN [done |-> TRUE, val |-> <<>>, g |-> [q |-> <<>>, held |-> <<>>]]
    ELSE [done |-> FALSE,
          val |-> <<Head(q).src, Head(Head(q).rest)>>,
          g |-> [q |-> Tail(q), held |-> <<[Head(q) EXCEPT !.rest = Tail(@)]>>]]

RECURSIVE interleave_loop_skip_turn(_)
interleave_loop_skip_turn(q) ==
    IF q = <<>>
    THEN [done |-> TRUE, val |-> <<>>, g |-> [q |-> <<>>, held |-> <<>>]]
    ELSE LET p == Head(q) IN
         IF p.rest = <<>>
         THEN IF Len(q) >= 2
              THEN interleave_loop_skip_turn(Tail(Tail(q)) \o <<q[2]>>)
              ELSE interleave_loop_skip_turn(Tail(q))
         ELSE [done |-> FALSE,
               val |-> <<p.src, Head(p.rest)>>,
               g |-> [q |-> Tail(q), held |-> <<[p EXCEPT !.rest = Tail(@)]>>]]

RECURSIVE interleave_loop(_)
interleave_loop(q) ==
    IF q = <<>>
    THEN [done |-> TRUE, val |-> <<>>, g |-> [q |-> <<>>, held |-> <<>>]]
    ELSE LET p == Head(q) IN
         IF p.rest = <<>>
         THEN interleave_loop(Tail(q))
         ELSE [done |-> FALSE,
               val |-> <<p.src, Head(p.rest)>>,
               g |-> [q |-> Tail(q), held |-> <<[p EXCEPT !.rest = Tail(@)]>>]]

interleave_next(g) == interleave_loop(g.q \o g.held)

(***************************************************************************)
(* Records.  A record is a dict; the model keeps the fields the engine      *)
(* reads and stands for the rest of the value tree by body: kind is       *)
(* Absent or <<string>>, metadata is Absent or <<dict>>, and                *)
(* metadata.namespace and metadata.name are each Absent, None (the key is  *)
(* there with a null value) or <<string>>.  Deep equality of two dicts is  *)
(* equality of the TLA+ records, so a null name and an absent one differ.  *)
(***************************************************************************)
Obj(k, ns, n, b) ==
    [kind |-> k, metadata |-> Some([namespace |-> ns, name |-> n]), body |-> b]

NoMetadata(k, b) == [kind |-> k, metadata |-> Absent, body |-> b]

has_kind(obj) == obj.kind # Absent

(***************************************************************************)
(* util.flatten_kube_lists: the inputs of the model are already flat       *)
(* (no record is a list wrapper), which the flattening leaves as they are. *)
(***************************************************************************)
flatten_kube_lists(items) == items

(***************************************************************************)
(* gather_objects(items).  h tags the objects the call allocates: the      *)
(* hierarchy is object <<h>>, the bucket created for ns is object          *)
(* <<h, ns>>.  gather_obj is the loop body for a record that has a kind    *)
(* and a metadata dict (lines 44-51).                                      *)
(***************************************************************************)
gather_obj_no_own_bucket(namespaces, obj, h) ==
    LET ns == dict_get(obj.metadata[1], "namespace")
        k == obj.kind[1]
        n == dict_get(obj.metadata[1], "name")
        with_ns == IF ~od_has(namespaces, ns)
                   THEN od_set(namespaces, ns, OrderedDict(<<h, ns>>))
                   ELSE namespaces
    IN od_set(with_ns, ns, od_set(od_get(with_ns, ns), <<k, n>>, obj))

gather_obj_first_wins(namespaces, obj, h) ==
    LET ns == dict_get(obj.metadata[1], "namespace")
        k == obj.kind[1]
        n == dict_get(obj.metadata[1], "name")
        with_ns == IF ~od_has(namespaces, ns)
                   THEN od_set(namespaces, ns, OrderedDict(<<h, ns>>))
                   ELSE namespaces
        with_n == IF k = "Namespace" /\ ~od_has(with_ns, n)
                  THEN od_set(with_ns, n, OrderedDict(<<h, n>>))
                  ELSE with_ns
    IN IF od_has(od_get(with_n, ns), <<k, n>>)
       THEN with_n
       ELSE od_set(with_n, ns, od_set(od_get(with_n, ns), <<k, n>>, obj))

gather_obj_name_first(namespaces, obj, h) ==
    LET ns == dict_get(obj.metadata[1], "namespace")
        k == obj.kind[1]
        n == dict_get(obj.metadata[1], "name")
        with_n == IF k = "Namespace" /\ ~od_has(namespaces, n)
                  THEN od_set(namespaces, n, OrderedDict(<<h, n>>))
                  ELSE namespaces
        with_ns == IF ~od_has(with_n, ns)
                   THEN od_set(with_n, ns, OrderedDict(<<h, ns>>))
                   ELSE with_n
    IN od_set(with_ns, ns, od_set(od_get(with_ns, ns), <<k, n>>, obj))

gather_obj_normalising(namespaces, obj, h) ==
    LET ns == IF dict_get(obj.metadata[1], "namespace") = Some("") THEN None
              ELSE dict_get(obj.metadata[1], "namespace")
        k == obj.kind[1]
        n == dict_get(obj.metadata[1], "name")
        with_ns == IF ~od_has(namespaces, ns)
                   THEN od_set(namespaces, ns, OrderedDict(<<h, ns>>))
                   ELSE namespaces
        with_n == IF k = "Namespace" /\ ~od_has(with_ns, n)
                  THEN od_set(with_ns, n, OrderedDict(<<h, n>>))
                  ELSE with_ns
    IN od_set(with_n, ns, od_set(od_get(with_n, ns), <<k, n>>, obj))

gather_obj(namespaces, obj, h) ==
    LET ns == dict_get(obj.metadata[1], "namespace")
        k == obj.kind[1]
        n == dict_get(obj.metadata[1], "name")
        with_ns == IF ~od_has(namespaces, ns)
                   THEN od_set(namespaces, ns, OrderedDict(<<h, ns>>))
                   ELSE namespaces
        with_n == IF k = "Namespace" /\ ~od_has(with_ns, n)
                  THEN od_set(with_ns, n, OrderedDict(<<h, n>>))
                  ELSE with_ns
    IN od_set(with_n, ns, od_set(od_get(with_n, ns), <<k, n>>, obj))

RECURSIVE gather_loop_tolerant(_, _, _)
gather_loop_tolerant(namespaces, items, h) ==
    IF items = <<>>
    THEN [err |-> FALSE, ret |-> Some(namespaces)]
    ELSE LET obj == Head(items) IN
         IF ~has_kind(obj) \/ obj.metadata = Absent
         THEN gather_loop_tolerant(namespaces, Tail(items), h)
         ELSE gather_loop_tolerant(gather_obj(namespaces, obj, h), Tail(items), h)

RECURSIVE gather_loop_break(_, _, _)
gather_loop_break(namespaces, items, h) ==
    IF items = <<>> \/ ~has_kind(Head(items))
    THEN [err |-> FALSE, ret |-> Some(namespaces)]
    ELSE IF Head(items).metadata = Absent
    THEN [err |-> TRUE, ret |-> None]
    ELSE gather_loop_break(gather_obj(namespaces, Head(items), h), Tail(items), h)

RECURSIVE gather_loop(_, _, _)
gather_loop(namespaces, items, h) ==
    IF items = <<>>
    THEN [err |-> FALSE, ret |-> Some(namespaces)]
    ELSE LET obj == Head(items) IN
         IF ~has_kind(obj)
         THEN gather_loop(namespaces, Tail(items), h)
         ELSE IF obj.metadata = Absent
         THEN [err |-> TRUE, ret |-> None]
         ELSE gather_loop(gather_obj(namespaces, obj, h), Tail(items), h)

gather_objects(items, h) ==
    gather_loop(OrderedDict(<<h>>), flatten_kube_lists(items), h)


(***************************************************************************)
(* diff_obj: the events the generator yields for one pair of records.      *)
(***************************************************************************)
diff_obj_inverted(ns, k, n, obj1, obj2) ==
    IF obj1 = obj2 THEN <<<<"change_obj", <<ns, k, n>>>>>> ELSE <<>>

diff_obj_always(ns, k, n, obj1, obj2) == <<<<"change_obj", <<ns, k, n>>>>>>

diff_obj(ns, k, n, obj1, obj2) ==
    IF obj1 # obj2 THEN <<<<"change_obj", <<ns, k, n>>>>>> ELSE <<>>

(***************************************************************************)
(* diff_ns(ns, objs1, objs2), a generator.  diff_ns_case is the branch     *)
(* taken for the pair (i, key) drawn from the interleaver (lines 76-80).   *)
(* The log records, in the order they are done, the draws from the         *)
(* interleaver and the record comparisons.                                 *)
(***************************************************************************)
diff_ns_case_swapped(i, key, objs1, objs2) ==
    IF i = objs1.id /\ ~od_has(objs2, key) THEN "add_obj"
    ELSE IF i = objs2.id /\ ~od_has(objs1, key) THEN "delete_obj"
    ELSE "diff_obj"

diff_ns_case(i, key, objs1, objs2) ==
    IF i = objs1.id /\ ~od_has(objs2, key) THEN "delete_obj"
    ELSE IF i = objs2.id /\ ~od_has(objs1, key) THEN "add_obj"
    ELSE "diff_obj"

diff_ns(ns, objs1, objs2) ==
    [ns |-> ns, objs1 |-> objs1, objs2 |-> objs2, seen |-> {},
     ilv |-> interleave(<<objs1, objs2>>)]

RECURSIVE diff_ns_next(_, _)
diff_ns_next(d, log) ==
    LET r == interleave_next(d.ilv) IN
    IF r.done
    THEN [done |-> TRUE, val |-> <<>>, g |-> [d EXCEPT !.ilv = r.g], log |-> log]
    ELSE LET i == r.val[1]
             key == r.val[2]
             drawn == [d EXCEPT !.ilv = r.g]
             log1 == Append(log, <<"key", d.ns, key>>)
         IN
         IF key \in d.seen
         THEN diff_ns_next(drawn, log1)
         ELSE LET d2 == [drawn EXCEPT !.seen = @ \cup {key}]
                  c == diff_ns_case(i, key, d.objs1, d.objs2)
              IN
              IF c = "delete_obj"
              THEN [done |-> FALSE, val |-> <<"delete_obj", <<d.ns, key[1], key[2]>>>>,
                    g |-> d2, log |-> log1]
              ELSE IF c = "add_obj"
              THEN [done |-> FALSE, val |-> <<"add_obj", <<d.ns, key[1], key[2]>>>>,
                    g |-> d2, log |-> log1]
              ELSE LET ys == diff_obj(d.ns, key[1], key[2],
                                      od_get(d.objs1, key), od_get(d.objs2, key))
                       log2 == Append(log1, <<"cmp", d.ns, key>>)
                   IN
                   IF ys = <<>>
                   THEN diff_ns_next(d2, log2)
                   ELSE [done |-> FALSE, val |-> ys[1], g |-> d2, log |-> log2]

(***************************************************************************)
(* calculate_changes(items1, items2), a generator.  inner is the diff_ns   *)
(* generator of the namespace being walked, if any.                        *)
(***************************************************************************)
calculate_changes_case_swapped(i, ns, items1, items2) ==
    IF i = items1.id /\ ~od_has(items2, ns) THEN "add_ns"
    ELSE IF i = items2.id /\ ~od_has(items1, ns) THEN "delete_ns"
    ELSE "diff_ns"

calculate_changes_case(i, ns, items1, items2) ==
    IF i = items1.id /\ ~od_has(items2, ns) THEN "delete_ns"
    ELSE IF i = items2.id /\ ~od_has(items1, ns) THEN "add_ns"
    ELSE "diff_ns"

calculate_changes_local_first(items1, items2) ==
    [items1 |-> items1, items2 |-> items2, seen |-> {},
     ilv |-> interleave(<<items2, items1>>), inner |-> None, log |-> <<>>]

calculate_changes_eager(items1, items2) ==
    [items1 |-> items1, items2 |-> items2, seen |-> {},
     ilv |-> interleave(<<items1, items2>>), inner |-> None,
     log |-> [j \in 1..Len(items1.keys) |-> <<"ns", items1.keys[j]>>]
             \o [j \in 1..Len(items2.keys) |-> <<"ns", items2.keys[j]>>]]

calculate_changes(items1, items2) ==
    [items1 |-> items1, items2 |-> items2, seen |-> {},
     ilv |-> interleave(<<items1, items2>>), inner |-> None, log |-> <<>>]

RECURSIVE calculate_changes_next_no_seen(_)
calculate_changes_next_no_seen(g) ==
    IF g.inner # None
    THEN LET r == diff_ns_next(g.inner[1], g.log) IN
         IF r.done
         THEN calculate_changes_next_no_seen([g EXCEPT !.inner = None, !.log = r.log])
         ELSE [done |-> FALSE, val |-> r.val,
               g |-> [g EXCEPT !.inner = Some(r.g), !.log = r.log]]
    ELSE LET r == interleave_next(g.ilv) IN
         IF r.done
         THEN [done |-> TRUE, val |-> <<>>, g |-> [g EXCEPT !.ilv = r.g]]
         ELSE LET i == r.val[1]
                  ns == r.val[2]
                  g2 == [g EXCEPT !.ilv = r.g, !.log = Append(@, <<"ns", ns>>)]
                  c == calculate_changes_case(i, ns, g.items1, g.items2)
              IN
              IF c = "delete_ns"
              THEN [done |-> FALSE, val |-> <<"delete_ns", <<ns>>>>, g |-> g2]
              ELSE IF c = "add_ns"
              THEN [done |-> FALSE, val |-> <<"add_ns", <<ns>>>>, g |-> g2]
              ELSE calculate_changes_next_no_seen(
                       [g2 EXCEPT !.inner = Some(diff_ns(ns, od_get(g.items1, ns),
                                                             od_get(g.items2, ns)))])

RECURSIVE calculate_changes_next(_)
calculate_changes_next(g) ==
    IF g.inner # None
    THEN LET r == diff_ns_next(g.inner[1], g.log) IN
         IF r.done
         THEN calculate_changes_next([g EXCEPT !.inner = None, !.log = r.log])
         ELSE [done |-> FALSE, val |-> r.val,
               g |-> [g EXCEPT !.inner = Some(r.g), !.log = r.log]]
    ELSE LET r == interleave_next(g.ilv) IN
         IF r.done
         THEN [done |-> TRUE, val |-> <<>>, g |-> [g EXCEPT !.ilv = r.g]]
         ELSE LET i == r.val[1]
                  ns == r.val[2]
                  drawn == [g EXCEPT !.ilv = r.g, !.log = Append(@, <<"ns", ns>>)]
              IN
              IF ns \in g.seen
              THEN calculate_changes_next(drawn)
              ELSE LET g2 == [drawn EXCEPT !.seen = @ \cup {ns}]
                       c == calculate_changes_case(i, ns, g.items1, g.items2)
                   IN
                   IF c = "delete_ns"
                   THEN [done |-> FALSE, val |-> <<"delete_ns", <<ns>>>>, g |-> g2]
                   ELSE IF c = "add_ns"
                   THEN [done |-> FALSE, val |-> <<"add_ns", <<ns>>>>, g |-> g2]
                   ELSE calculate_changes_next(
                            [g2 EXCEPT !.inner = Some(diff_ns(ns, od_get(g.items1, ns),
                                                                  od_get(g.items2, ns)))])


(***************************************************************************)
(* The interleaver on its own: a caller passes N sources and pulls the     *)
(* pairs one by one.                                                       *)
(***************************************************************************)
Items == {"a", "b"}

Sources == SeqsUpTo(Items, MaxItems)

IdleCli ==
    /\ rendered = <<>>
    /\ refs = <<>>
    /\ alias = FALSE
    /\ quiet = FALSE
    /\ list_ = FALSE
    /\ local = <<>>
    /\ cluster = <<>>
    /\ gen = <<>>
    /\ events = <<>>
    /\ found_changes = FALSE
    /\ exit_status = -1

IdleIlv ==
    /\ iters = <<>>
    /\ ilv = <<>>
    /\ out = <<>>

InitInterleave ==
    /\ pc = "ilv_call"
    /\ \E n \in 0..MaxSources : \E ss \in [1..n -> Sources] :
          iters = [j \in 1..n |-> [id |-> j, keys |-> ss[j]]]
    /\ ilv = <<>>
    /\ out = <<>>
    /\ IdleCli

InterleaveCall ==
    /\ pc = "ilv_call"
    /\ ilv' = <<interleave(iters)>>
    /\ pc' = "ilv_pull"
    /\ UNCHANGED <<iters, out, cliVars>>

InterleaveYield ==
    /\ pc = "ilv_pull"
    /\ LET r == interleave_next(ilv[1]) IN
          /\ ~r.done
          /\ ilv' = <<r.g>>
          /\ out' = Append(out, r.val)
    /\ UNCHANGED <<pc, iters, cliVars>>

InterleaveStop ==
    /\ pc = "ilv_pull"
    /\ LET r == interleave_next(ilv[1]) IN
          /\ r.done
          /\ ilv' = <<r.g>>
    /\ pc' = "ilv_done"
    /\ UNCHANGED <<iters, out, cliVars>>

NextInterleave == InterleaveCall \/ InterleaveYield \/ InterleaveStop

SpecInterleave == InitInterleave /\ [][NextInterleave]_vars

(***************************************************************************)
(* The diff command (lines 170-192).  rendered is the rendered manifests,  *)
(* refs the listing the API client returns; both are inputs.  With alias   *)
(* the caller passes the same hierarchy object as both arguments of        *)
(* calculate_changes.                                                      *)
(***************************************************************************)
ConfigMap(ns, n, b) == Obj(Some("ConfigMap"), ns, n, b)

CliRecords ==
    {ConfigMap(Some("a"), Some("x"), 0),
     ConfigMap(Some("a"), Some("x"), 1),
     ConfigMap(Some("a"), Some("y"), 0),
     ConfigMap(Some("b"), Some("x"), 0),
     ConfigMap(Some(""), Some("x"), 0),
     Obj(Some("Namespace"), Absent, Some("b"), 0)}

GatherRecords ==
    CliRecords \cup
    {NoMetadata(Absent, 0),
     Obj(Absent, Some("c"), Some("z"), 0),
     NoMetadata(Some("ConfigMap"), 0),
     ConfigMap(Some("a"), None, 0),
     Obj(Some("Pod"), Some("a"), Some("x"), 0),
     Obj(Some("Namespace"), Some("a"), Absent, 0)}

\* The cluster listings of the gathering specification: nothing, or another
\* revision of a record of GatherRecords: of the named one, of the one
\* whose name is null, and the latter without the name key.
GatherRefs ==
    {<<>>,
     <<ConfigMap(Some("a"), Some("x"), 1)>>,
     <<ConfigMap(Some("a"), None, 1)>>,
     <<ConfigMap(Some("a"), Absent, 1)>>}

Init ==
    /\ pc = "gather_local"
    /\ rendered \in SeqsUpTo(CliRecords, MaxRendered)
    /\ refs \in SeqsUpTo(CliRecords, MaxRefs)
    /\ alias \in BOOLEAN
    /\ quiet \in BOOLEAN
    /\ list_ \in BOOLEAN
    /\ alias => rendered = <<>>
    /\ local = None
    /\ cluster = None
    /\ gen = None
    /\ events = <<>>
    /\ found_changes = FALSE
    /\ exit_status = -1
    /\ IdleIlv

\* With -q the loop breaks before it looks at -l, so the combination of
\* both is left to Init.
InitGather ==
    /\ pc = "gather_local"
    /\ rendered \in SeqsUpTo(GatherRecords, MaxGather)
    /\ refs \in GatherRefs
    /\ alias = FALSE
    /\ quiet \in BOOLEAN
    /\ list_ \in BOOLEAN
    /\ quiet => ~list_
    /\ local = None
    /\ cluster = None
    /\ gen = None
    /\ events = <<>>
    /\ found_changes = FALSE
    /\ exit_status = -1
    /\ IdleIlv

GatherLocal ==
    /\ pc = "gather_local"
    /\ LET r == gather_objects(rendered, 1) IN
          /\ local' = r.ret
          /\ pc' = IF r.err THEN "error" ELSE "gather_cluster"
    /\ UNCHANGED <<rendered, refs, alias, quiet, list_, cluster, gen, events, found_changes, exit_status, ilvVars>>

GatherCluster ==
    /\ pc = "gather_cluster"
    /\ LET r == gather_objects(refs, 2) IN
          /\ cluster' = r.ret
          /\ pc' = IF r.err THEN "error" ELSE "call"
    /\ UNCHANGED <<rendered, refs, alias, quiet, list_, local, gen, events, found_changes, exit_status, ilvVars>>

\* Lines 172-180: the API client raises (connecting, list or get_refs);
\* the finally clause closes the kernel and the exception ends the command
\* before the cluster hierarchy is built.
ApiError ==
    /\ pc = "gather_cluster"
    /\ pc' = "error"
    /\ UNCHANGED <<rendered, refs, alias, quiet, list_, local, cluster, gen, events, found_changes, exit_status, ilvVars>>

Items1 == cluster[1]

Items2 == IF alias THEN cluster[1] ELSE local[1]

(***************************************************************************)
(* print_diff(o1, o2): TRUE when both labels can be built, FALSE when a    *)
(* lookup raises KeyError.  The label of a record reads o['metadata'] and  *)
(* then ['name'] with a subscript (the namespace with .get), so a record   *)
(* without the name key raises and one whose name is null does not; the    *)
(* cluster record comes first.  The temporary                              *)
(* files, the diff subprocess and the text it prints are not modelled.     *)
(***************************************************************************)
print_diff(o1, o2) ==
    /\ o1.metadata # Absent /\ o1.metadata[1].name # Absent
    /\ o2.metadata # Absent /\ o2.metadata[1].name # Absent

(***************************************************************************)
(* print_name(action, args): TRUE when it returns normally.  It looks      *)
(* nothing up in the hierarchies; it unpacks args by the suffix of the     *)
(* action and fails when the action has neither suffix (line unbound) or   *)
(* the tuple has the wrong length.  The printed line is not modelled.      *)
(***************************************************************************)
print_name(action, args) ==
    IF action \in {"add_ns", "delete_ns"} THEN Len(args) = 1
    ELSE IF action \in {"add_obj", "delete_obj", "change_obj"} THEN Len(args) >= 3
    ELSE FALSE

(***************************************************************************)
(* print_change(action, args, local, cluster): TRUE when every dict lookup *)
(* it makes finds its key, FALSE when one raises KeyError: local[ns] for   *)
(* an added namespace, cluster[ns] for a deleted one, and for a changed    *)
(* record cluster[ns][k,n], local[ns][k,n] and then the lookups of         *)
(* print_diff.  The text it prints is not modelled.                        *)
(***************************************************************************)
print_change_swapped_sides(action, args, local_, cluster_) ==
    IF action = "add_ns" THEN od_has(cluster_, args[1])
    ELSE IF action = "delete_ns" THEN od_has(local_, args[1])
    ELSE IF action = "change_obj"
    THEN /\ od_has(cluster_, args[1])
         /\ od_has(od_get(cluster_, args[1]), <<args[2], args[3]>>)
         /\ od_has(local_, args[1])
         /\ od_has(od_get(local_, args[1]), <<args[2], args[3]>>)
         /\ print_diff(od_get(od_get(cluster_, args[1]), <<args[2], args[3]>>),
                       od_get(od_get(local_, args[1]), <<args[2], args[3]>>))
    ELSE TRUE

print_change(action, args, local_, cluster_) ==
    IF action = "add_ns" THEN od_has(local_, args[1])
    ELSE IF action = "delete_ns" THEN od_has(cluster_, args[1])
    ELSE IF action = "change_obj"
    THEN /\ od_has(cluster_, args[1])
         /\ od_has(od_get(cluster_, args[1]), <<args[2], args[3]>>)
         /\ od_has(local_, args[1])
         /\ od_has(od_get(local_, args[1]), <<args[2], args[3]>>)
         /\ print_diff(od_get(od_get(cluster_, args[1]), <<args[2], args[3]>>),
                       od_get(od_get(local_, args[1]), <<args[2], args[3]>>))
    ELSE TRUE

DiffCall ==
    /\ pc = "call"
    /\ found_changes' = FALSE
    /\ gen' = Some(calculate_changes(Items1, Items2))
    /\ pc' = "loop"
    /\ UNCHANGED <<rendered, refs, alias, quiet, list_, local, cluster, events, exit_status, ilvVars>>

LoopQuietBreak_before_flag ==
    /\ pc = "loop"
    /\ quiet
    /\ LET r == calculate_changes_next(gen[1]) IN
          /\ ~r.done
          /\ gen' = Some(r.g)
          /\ events' = Append(events, r.val)
    /\ pc' = "exit"
    /\ UNCHANGED <<rendered, refs, alias, quiet, list_, local, cluster, found_changes, exit_status, ilvVars>>

LoopQuietBreak ==
    /\ pc = "loop"
    /\ quiet
    /\ LET r == calculate_changes_next(gen[1]) IN
          /\ ~r.done
          /\ gen' = Some(r.g)
          /\ events' = Append(events, r.val)
    /\ found_changes' = TRUE
    /\ pc' = "exit"
    /\ UNCHANGED <<rendered, refs, alias, quiet, list_, local, cluster, exit_status, ilvVars>>

\* Lines 183-188 in list mode: the event is printed by print_name.
LoopList ==
    /\ pc = "loop"
    /\ ~quiet
    /\ list_
    /\ LET r == calculate_changes_next(gen[1]) IN
          /\ ~r.done
          /\ gen' = Some(r.g)
          /\ events' = Append(events, r.val)
          /\ pc' = IF print_name(r.val[1], r.val[2]) THEN "loop" ELSE "error"
    /\ found_changes' = TRUE
    /\ UNCHANGED <<rendered, refs, alias, quiet, list_, local, cluster, exit_status, ilvVars>>

\* Lines 183-190 otherwise: the event is printed by print_change, whose
\* KeyError ends the command before sys.exit.
LoopPrint ==
    /\ pc = "loop"
    /\ ~quiet
    /\ ~list_
    /\ LET r == calculate_changes_next(gen[1]) IN
          /\ ~r.done
          /\ gen' = Some(r.g)
          /\ events' = Append(events, r.val)
          /\ pc' = IF print_change(r.val[1], r.val[2], Items2, Items1)
                   THEN "loop" ELSE "error"
    /\ found_changes' = TRUE
    /\ UNCHANGED <<rendered, refs, alias, quiet, list_, local, cluster, exit_status, ilvVars>>

LoopEnd ==
    /\ pc = "loop"
    /\ LET r == calculate_changes_next(gen[1]) IN
          /\ r.done
          /\ gen' = Some(r.g)
    /\ pc' = "exit"
    /\ UNCHANGED <<rendered, refs, alias, quiet, list_, local, cluster, events, found_changes, exit_status, ilvVars>>

Exit ==
    /\ pc = "exit"
    /\ exit_status' = IF found_changes THEN 1 ELSE 0
    /\ pc' = "done"
    /\ UNCHANGED <<rendered, refs, alias, quiet, list_, local, cluster, gen, events, found_changes, ilvVars>>

Next ==
    \/ GatherLocal
    \/ GatherCluster
    \/ ApiError
    \/ DiffCall
    \/ LoopQuietBreak
    \/ LoopList
    \/ LoopPrint
    \/ LoopEnd
    \/ Exit

Spec == Init /\ [][Next]_vars

SpecGather == InitGather /\ [][Next]_vars

(***************************************************************************)
(* Properties.                                                             *)
(***************************************************************************)
Keys(d) == Range(d.keys)

\* The loop consumed the whole event sequence of calculate_changes.
Consumed == pc = "done" /\ ~quiet

\* The positions of the events that carry namespace ns.
EventsAbout(ns) == {j \in 1..Len(events) : events[j][2][1] = ns}

\* The positions of the record-level events about (ns, k, n).
EventsAboutKey(ns, key) ==
    {j \in 1..Len(events) : events[j][2] = <<ns, key[1], key[2]>>}

RecordActions == {"add_obj", "delete_obj", "change_obj"}

\* C1 as stated: with an empty cluster hierarchy and the local hierarchy
\* built from the single record (a, ConfigMap, x), the events are
\* AddNamespace(a) followed by AddRecord(a, ConfigMap, x).
C1_PureAdditionTwoEvents ==
    (/\ Consumed
     /\ ~alias
     /\ refs = <<>>
     /\ rendered = <<ConfigMap(Some("a"), Some("x"), 0)>>)
    => events = << <<"add_ns", <<Some("a")>>>>,
                   <<"add_obj", <<Some("a"), "ConfigMap", Some("x")>>>> >>

\* C1 amended: with an empty cluster hierarchy and the local hierarchy built
\* from the single record (a, ConfigMap, x), the events are exactly
\* AddNamespace(a); in general a namespace present only on the local side
\* produces exactly one event, its AddNamespace, and no record event.
C1_PureAddition ==
    gen # None =>
       /\ (/\ Consumed
           /\ Keys(Items1) = {}
           /\ rendered = <<ConfigMap(Some("a"), Some("x"), 0)>>
           /\ ~alias)
          => events = << <<"add_ns", <<Some("a")>>>> >>
       /\ \A ns \in Keys(Items2) \ Keys(Items1) :
             /\ Cardinality(EventsAbout(ns)) <= 1
             /\ Consumed => Cardinality(EventsAbout(ns)) = 1
             /\ \A j \in EventsAbout(ns) : events[j] = <<"add_ns", <<ns>>>>

C1_Witness ==
    /\ Consumed
    /\ refs = <<>>
    /\ rendered = <<ConfigMap(Some("a"), Some("x"), 0)>>
    /\ Len(od_get(Items2, Some("a")).keys) = 1
    /\ events = << <<"add_ns", <<Some("a")>>>> >>

\* C2: a namespace that has a bucket in the cluster hierarchy and none in
\* the local hierarchy gets exactly one event, DeleteNamespace(ns), and no
\* record-level event, however many records its bucket holds.
C2_PureDeletion ==
    gen # None =>
       \A ns \in Keys(Items1) \ Keys(Items2) :
          /\ Cardinality(EventsAbout(ns)) <= 1
          /\ Consumed => Cardinality(EventsAbout(ns)) = 1
          /\ \A j \in EventsAbout(ns) : events[j] = <<"delete_ns", <<ns>>>>

C2_Witness ==
    /\ Consumed
    /\ ~alias
    /\ od_has(Items1, Some("a"))
    /\ ~od_has(Items2, Some("a"))
    /\ Len(od_get(Items1, Some("a")).keys) = 2
    /\ events = << <<"delete_ns", <<Some("a")>>>> >>

\* C3: a key present in both buckets of a namespace that both sides have
\* gets exactly one ChangeRecord event when the two records differ and no
\* event when they are equal, never AddRecord or DeleteRecord.
C3_ChangeDetection ==
    Consumed =>
       \A ns \in Keys(Items1) \cap Keys(Items2) :
          LET objs1 == od_get(Items1, ns)
              objs2 == od_get(Items2, ns)
          IN \A key \in Keys(objs1) \cap Keys(objs2) :
                IF od_get(objs1, key) # od_get(objs2, key)
                THEN /\ Cardinality(EventsAboutKey(ns, key)) = 1
                     /\ \A j \in EventsAboutKey(ns, key) :
                           events[j][1] = "change_obj"
                ELSE EventsAboutKey(ns, key) = {}

\* The changed key is drawn from the local side first.
C3_Witness ==
    /\ Consumed
    /\ refs = <<ConfigMap(Some("a"), Some("y"), 0), ConfigMap(Some("a"), Some("x"), 0)>>
    /\ rendered = <<ConfigMap(Some("a"), Some("x"), 1)>>
    /\ events = << <<"delete_obj", <<Some("a"), "ConfigMap", Some("y")>>>>,
                   <<"change_obj", <<Some("a"), "ConfigMap", Some("x")>>>> >>

\* C4: comparing a hierarchy with itself (the same object as both
\* arguments) yields no event.
C4_SymmetricNoOp ==
    (alias /\ pc \in {"loop", "exit", "done"}) => events = <<>>

\* A hierarchy with an empty bucket and a bucket with records.
C4_Witness ==
    /\ alias
    /\ pc = "done"
    /\ \E ns \in Keys(Items1) : od_get(Items1, ns).keys = <<>>
    /\ \E ns \in Keys(Items1) : od_get(Items1, ns).keys # <<>>
    /\ Items2.id = Items1.id
    /\ gen[1].log # <<>>
    /\ events = <<>>

\* The items that the pairs of o drawn from source src carry, in order.
FromSource(o, src) ==
    LET sel == SelectSeq(o, LAMBDA p : p[1] = src)
    IN [t \in 1..Len(sel) |-> sel[t][2]]

IsPrefix(s, t) == Len(s) <= Len(t) /\ SubSeq(t, 1, Len(s)) = s

\* C5: for two sources of lengths m and n, interleave emits, source by
\* source, a prefix of the source in the source's order, and when it
\* terminates it has emitted m+n pairs, every item of each source once;
\* an empty source contributes nothing and the generator still terminates.
C5_InterleaveComplete ==
    (pc \in {"ilv_pull", "ilv_done"} /\ Len(iters) = 2) =>
       /\ \A p \in Range(out) : p[1] \in {1, 2}
       /\ \A j \in {1, 2} : IsPrefix(FromSource(out, j), iters[j].keys)
       /\ pc = "ilv_done" =>
             /\ Len(out) = Len(iters[1].keys) + Len(iters[2].keys)
             /\ \A j \in {1, 2} : FromSource(out, j) = iters[j].keys

\* The first source runs out first; the second has two items.
C5_Witness ==
    /\ pc = "ilv_done"
    /\ Len(iters) = 2
    /\ iters[1].keys = <<"b">>
    /\ iters[2].keys = <<"a", "b">>
    /\ out = << <<1, "b">>, <<2, "a">>, <<2, "b">> >>

(***************************************************************************)
(* Properties of gather_objects, on the hierarchy local built from         *)
(* rendered.                                                               *)
(***************************************************************************)
Gathered == local # None

\* The records of the input that gather_objects does not skip.
Kinded == {j \in 1..Len(rendered) : has_kind(rendered[j])}

NsOf(obj) == dict_get(obj.metadata[1], "namespace")

NameOf(obj) == dict_get(obj.metadata[1], "name")

KeyOf(obj) == <<obj.kind[1], NameOf(obj)>>

\* C6: the buckets of the hierarchy are exactly the metadata.namespace
\* values (null when absent) of the records that have a kind, together with
\* the names of the records of kind Namespace, each once; a single Pod in
\* one namespace gives one bucket with one entry.
C6_BucketSet ==
    Gathered =>
       /\ Keys(local[1]) =
             {NsOf(rendered[j]) : j \in Kinded} \cup
             {NameOf(rendered[j]) : j \in {i \in Kinded : rendered[i].kind = Some("Namespace")}}
       /\ Cardinality(Keys(local[1])) = Len(local[1].keys)
       /\ Len(local[1].vals) = Len(local[1].keys)
       /\ rendered = <<Obj(Some("Pod"), Some("a"), Some("x"), 0)>> =>
             /\ local[1].keys = <<Some("a")>>
             /\ local[1].vals[1].keys = << <<"Pod", Some("x")>> >>

\* A Namespace record alone: its own name has a bucket that holds nothing.
C6_Witness ==
    /\ Gathered
    /\ rendered = <<Obj(Some("Namespace"), Absent, Some("b"), 0)>>
    /\ local[1].keys = <<None, Some("b")>>
    /\ od_get(local[1], Some("b")).keys = <<>>
    /\ od_get(local[1], None).keys = << <<"Namespace", Some("b")>> >>

\* The round-robin order of two sequences, the first one drawn first.
RECURSIVE RoundRobin(_, _)
RoundRobin(s, t) ==
    IF s = <<>> THEN t ELSE <<Head(s)>> \o RoundRobin(t, Tail(s))

FirstPos(s, x) == CHOOSE j \in 1..Len(s) : s[j] = x /\ \A i \in 1..(j - 1) : s[i] # x

NsOrder == RoundRobin(Items1.keys, Items2.keys)

KeyOrder(ns) == RoundRobin(od_get(Items1, ns).keys, od_get(Items2, ns).keys)

\* C7: events about namespace X precede events about namespace Y when X
\* first occurs before Y in the round-robin order of (cluster identifiers,
\* local identifiers); inside a namespace of both sides the record events
\* follow the first occurrences of their keys in the round-robin order of
\* (cluster keys, local keys).
C7_EventOrdering ==
    Consumed =>
       \A j1, j2 \in 1..Len(events) :
          LET ns1 == events[j1][2][1]
              ns2 == events[j2][2][1]
          IN /\ ns1 \in Range(NsOrder)
             /\ (ns1 # ns2 /\ FirstPos(NsOrder, ns1) < FirstPos(NsOrder, ns2))
                => j1 < j2
             /\ (/\ ns1 = ns2
                 /\ j1 # j2
                 /\ events[j1][1] \in RecordActions
                 /\ events[j2][1] \in RecordActions)
                => LET k1 == <<events[j1][2][2], events[j1][2][3]>>
                       k2 == <<events[j2][2][2], events[j2][2][3]>>
                   IN /\ k1 # k2
                      /\ FirstPos(KeyOrder(ns1), k1) < FirstPos(KeyOrder(ns1), k2)
                         => j1 < j2

\* A local-only namespace falls between two cluster namespaces, and two
\* keys of a shared namespace are reported in round-robin order.
C7_Witness ==
    /\ Consumed
    /\ refs = <<ConfigMap(Some("a"), Some("x"), 0), ConfigMap(Some("b"), Some("x"), 0)>>
    /\ rendered = <<ConfigMap(Some(""), Some("x"), 0), ConfigMap(Some("a"), Some("y"), 0)>>
    /\ events = << <<"delete_obj", <<Some("a"), "ConfigMap", Some("x")>>>>,
                   <<"add_obj", <<Some("a"), "ConfigMap", Some("y")>>>>,
                   <<"add_ns", <<Some("")>>>>,
                   <<"delete_ns", <<Some("b")>>>> >>

\* The generator is suspended at the yield that handed over the last event.
Handed ==
    /\ events # <<>>
    /\ pc = "loop" \/ (quiet /\ pc \in {"exit", "done"})

\* The namespace identifiers drawn so far from the namespace interleaver.
NsDrawn ==
    LET sel == SelectSeq(gen[1].log, LAMBDA x : x[1] = "ns")
    IN [t \in 1..Len(sel) |-> sel[t][2]]

\* The keys of namespace ns drawn so far from its key interleaver.
KeysDrawn(ns) ==
    LET sel == SelectSeq(gen[1].log, LAMBDA x : x[1] = "key" /\ x[2] = ns)
    IN [t \in 1..Len(sel) |-> sel[t][3]]

\* The step of the engine that produces event e.
ProducedBy(e) ==
    IF e[1] \in {"add_ns", "delete_ns"} THEN <<"ns", e[2][1]>>
    ELSE IF e[1] = "change_obj" THEN <<"cmp", e[2][1], <<e[2][2], e[2][3]>>>>
    ELSE <<"key", e[2][1], <<e[2][2], e[2][3]>>>>

\* C8: when an event is handed to the consumer, the last thing the engine
\* did is the step that produced it: the identifiers drawn are a prefix of
\* the round-robin order that ends at the event's namespace, the keys drawn
\* in that namespace are a prefix of its round-robin key order, and no
\* later identifier was drawn and no later pair compared.  In quiet mode
\* the loop stops there.
C8_Lazy ==
    Handed =>
       LET e == events[Len(events)]
           log == gen[1].log
           ns == e[2][1]
       IN /\ log # <<>>
          /\ log[Len(log)] = ProducedBy(e)
          /\ IsPrefix(NsDrawn, NsOrder)
          /\ NsDrawn[Len(NsDrawn)] = ns
          /\ e[1] \in RecordActions =>
                /\ IsPrefix(KeysDrawn(ns), KeyOrder(ns))
                /\ KeysDrawn(ns)[Len(KeysDrawn(ns))] = <<e[2][2], e[2][3]>>
          /\ quiet => Len(events) = 1

\* Quiet mode stops at the first change; three identifiers and a record
\* pair of namespace b are left untouched.
C8_Witness ==
    /\ quiet
    /\ pc = "done"
    /\ refs = <<ConfigMap(Some("a"), Some("x"), 0), ConfigMap(Some("b"), Some("x"), 0)>>
    /\ rendered = <<ConfigMap(Some("a"), Some("x"), 1), ConfigMap(Some("b"), Some("x"), 0)>>
    /\ events = << <<"change_obj", <<Some("a"), "ConfigMap", Some("x")>>>> >>
    /\ gen[1].log = << <<"ns", Some("a")>>,
                       <<"key", Some("a"), <<"ConfigMap", Some("x")>>>>,
                       <<"cmp", Some("a"), <<"ConfigMap", Some("x")>>>> >>
    /\ Len(NsOrder) = 4

\* The input holds a record with a kind and no metadata.
LacksMetadata == \E j \in Kinded : rendered[j].metadata = Absent

\* The input holds a record with a kind that has no metadata or no name.
LacksIdentity ==
    \E j \in Kinded : rendered[j].metadata = Absent \/ NameOf(rendered[j]) = None

\* C9 as stated: a record with a kind and without metadata, or with
\* metadata and without a name, makes gather_objects end in an error and
\* return no hierarchy.
C9_FailFastOnMissingIdentity ==
    (pc # "gather_local" /\ LacksIdentity) => (pc = "error" /\ local = None)

\* C9 amended: a record with a kind and without metadata makes
\* gather_objects end in an error, return no hierarchy and store nothing;
\* a record with metadata and without a name raises no error and is stored
\* in the bucket of its namespace under the key (kind, null).
C9_FailFast ==
    pc # "gather_local" =>
       IF LacksMetadata
       THEN /\ pc = "error"
            /\ local = None
            /\ gen = None
            /\ exit_status = -1
       ELSE /\ Gathered
            /\ \A j \in Kinded :
                  NameOf(rendered[j]) = None =>
                     LET objs == od_get(local[1], NsOf(rendered[j]))
                     IN /\ od_has(objs, <<rendered[j].kind[1], None>>)
                        /\ NameOf(od_get(objs, <<rendered[j].kind[1], None>>)) = None

\* The record without metadata comes after a well-formed one.
C9_Witness ==
    /\ pc = "error"
    /\ rendered = <<ConfigMap(Some("a"), Some("x"), 0), NoMetadata(Some("ConfigMap"), 0)>>
    /\ local = None

\* C10: several records with the same (namespace, kind, name) raise no
\* error; the bucket holds that key once and its value is the last such
\* record of the input.
C10_LastWriteWins ==
    /\ (pc # "gather_local" /\ ~LacksMetadata) => Gathered
    /\ Gathered =>
          \A j \in Kinded :
             LET obj == rendered[j]
                 objs == od_get(local[1], NsOf(obj))
                 same == {i \in Kinded : /\ NsOf(rendered[i]) = NsOf(obj)
                                         /\ KeyOf(rendered[i]) = KeyOf(obj)}
                 last == CHOOSE i \in same : \A i2 \in same : i2 <= i
             IN /\ Cardinality({t \in 1..Len(objs.keys) : objs.keys[t] = KeyOf(obj)}) = 1
                /\ Len(objs.vals) = Len(objs.keys)
                /\ od_get(objs, KeyOf(obj)) = rendered[last]

\* The key (a, ConfigMap, x) comes twice with different bodies.
C10_Witness ==
    /\ Gathered
    /\ rendered = <<ConfigMap(Some("a"), Some("x"), 0),
                    ConfigMap(Some("a"), Some("y"), 0),
                    ConfigMap(Some("a"), Some("x"), 1)>>
    /\ local[1].keys = <<Some("a")>>
    /\ local[1].vals[1].keys = << <<"ConfigMap", Some("x")>>, <<"ConfigMap", Some("y")>> >>
    /\ local[1].vals[1].vals = <<ConfigMap(Some("a"), Some("x"), 1),
                                 ConfigMap(Some("a"), Some("y"), 0)>>

\* C11: inside a namespace that has a bucket on both sides, a key of the
\* cluster bucket alone gets exactly one DeleteRecord event and a key of the
\* local bucket alone exactly one AddRecord event, and nothing else.
C11_RecordClassification ==
    Consumed =>
       \A ns \in Keys(Items1) \cap Keys(Items2) :
          LET objs1 == od_get(Items1, ns)
              objs2 == od_get(Items2, ns)
          IN /\ \A key \in Keys(objs1) \ Keys(objs2) :
                   /\ Cardinality(EventsAboutKey(ns, key)) = 1
                   /\ \A j \in EventsAboutKey(ns, key) : events[j][1] = "delete_obj"
             /\ \A key \in Keys(objs2) \ Keys(objs1) :
                   /\ Cardinality(EventsAboutKey(ns, key)) = 1
                   /\ \A j \in EventsAboutKey(ns, key) : events[j][1] = "add_obj"

\* A shared namespace with one key on each side only.
C11_Witness ==
    /\ Consumed
    /\ refs = <<ConfigMap(Some("a"), Some("x"), 0)>>
    /\ rendered = <<ConfigMap(Some("a"), Some("y"), 0)>>
    /\ events = << <<"delete_obj", <<Some("a"), "ConfigMap", Some("x")>>>>,
                   <<"add_obj", <<Some("a"), "ConfigMap", Some("y")>>>> >>

\* Round r of the sources: the r-th item of every source that has one, in
\* the order the sources were passed.
RoundOf(r) ==
    LET has == SelectSeq([j \in 1..Len(iters) |-> j],
                         LAMBDA j : Len(iters[j].keys) >= r)
    IN [t \in 1..Len(has) |-> <<iters[has[t]].id, iters[has[t]].keys[r]>>]

RECURSIVE RoundsFrom(_)
RoundsFrom(r) == IF RoundOf(r) = <<>> THEN <<>> ELSE RoundOf(r) \o RoundsFrom(r + 1)

\* C12: for any number of sources the output of interleave is the
\* concatenation of the rounds; the pairs handed out so far are always a
\* prefix of it, and the generator stops exactly when all of it is out.
C12_RoundRobin ==
    pc \in {"ilv_pull", "ilv_done"} =>
       /\ IsPrefix(out, RoundsFrom(1))
       /\ pc = "ilv_done" => out = RoundsFrom(1)
       /\ pc = "ilv_pull" =>
             (interleave_next(ilv[1]).done <=> out = RoundsFrom(1))

\* Three sources; the first runs out after round 1 and the other two keep
\* their order in round 2.
C12_Witness ==
    /\ pc = "ilv_done"
    /\ Len(iters) = 3
    /\ iters[1].keys = <<"a">>
    /\ iters[2].keys = <<"a", "b">>
    /\ iters[3].keys = <<"b", "a">>
    /\ out = << <<1, "a">>, <<2, "a">>, <<3, "b">>, <<2, "b">>, <<3, "a">> >>

\* The (namespace, kind, name) triples met when walking a hierarchy,
\* namespaces then keys.
Triples(d) ==
    UNION {{<<ns, key[1], key[2]>> : key \in Keys(od_get(d, ns))} : ns \in Keys(d)}

\* C13: the triples of the hierarchy are the triples of the input records
\* that have a kind: records without a kind are dropped without an error,
\* no other record is dropped, and every stored record is one of the input,
\* under its own namespace and its own (kind, name).
C13_RoundTrip ==
    /\ (pc # "gather_local" /\ ~LacksMetadata) => Gathered
    /\ Gathered =>
          /\ ~LacksMetadata
          /\ Triples(local[1]) =
                {<<NsOf(rendered[j]), KeyOf(rendered[j])[1], KeyOf(rendered[j])[2]>> : j \in Kinded}
          /\ \A ns \in Keys(local[1]) :
                \A key \in Keys(od_get(local[1], ns)) :
                   LET obj == od_get(od_get(local[1], ns), key)
                   IN /\ \E j \in Kinded : rendered[j] = obj
                      /\ NsOf(obj) = ns
                      /\ KeyOf(obj) = key

\* A record without kind and metadata stands between two records that are
\* kept.
C13_Witness ==
    /\ Gathered
    /\ rendered = <<ConfigMap(Some("a"), Some("x"), 0),
                    NoMetadata(Absent, 0),
                    ConfigMap(Some("b"), Some("x"), 0)>>
    /\ Triples(local[1]) = {<<Some("a"), "ConfigMap", Some("x")>>,
                            <<Some("b"), "ConfigMap", Some("x")>>}

\* A sequence without its repeated items, each kept at its first place.
RECURSIVE FirstSeen(_)
FirstSeen(s) ==
    IF s = <<>> THEN <<>>
    ELSE LET front == FirstSeen(SubSeq(s, 1, Len(s) - 1))
         IN IF s[Len(s)] \in Range(front) THEN front ELSE Append(front, s[Len(s)])

\* The namespace identifiers the input mentions, in order: for each record
\* with a kind its metadata.namespace, then its name if it is a Namespace.
RECURSIVE Mentions(_)
Mentions(items) ==
    IF items = <<>> THEN <<>>
    ELSE LET obj == Head(items) IN
         IF ~has_kind(obj) THEN Mentions(Tail(items))
         ELSE <<NsOf(obj)>>
              \o (IF obj.kind = Some("Namespace") THEN <<NameOf(obj)>> ELSE <<>>)
              \o Mentions(Tail(items))

\* The keys the input carries for namespace ns, in order.
KeysMentioned(ns) ==
    LET sel == SelectSeq(rendered, LAMBDA obj : has_kind(obj) /\ NsOf(obj) = ns)
    IN [t \in 1..Len(sel) |-> KeyOf(sel[t])]

\* C14: the namespace identifiers of the hierarchy are in the order of their
\* first mention in the input, and the keys of each bucket in the order of
\* the first record that carries them; a later record with the same key
\* does not move it.
C14_FirstSeenOrder ==
    Gathered =>
       /\ local[1].keys = FirstSeen(Mentions(rendered))
       /\ \A ns \in Keys(local[1]) :
             od_get(local[1], ns).keys = FirstSeen(KeysMentioned(ns))

\* The key x of namespace a is overwritten after y was added.
C14_Witness ==
    /\ Gathered
    /\ rendered = <<ConfigMap(Some("a"), Some("x"), 1),
                    ConfigMap(Some("a"), Some("y"), 0),
                    ConfigMap(Some("a"), Some("x"), 0)>>
    /\ od_get(local[1], Some("a")).keys = << <<"ConfigMap", Some("x")>>, <<"ConfigMap", Some("y")>> >>
    /\ od_get(local[1], Some("a")).vals[1].body = 0

\* The null identifier and the empty string.
Blank == {None, Some("")}

\* The buckets of hierarchy d that hold a record whose metadata.namespace
\* is ns.
BucketsHolding(d, ns) ==
    {b \in Keys(d) : \E key \in Keys(od_get(d, b)) :
                        NsOf(od_get(od_get(d, b), key)) = ns}

\* C15 as stated: a record without metadata.namespace and a record whose
\* metadata.namespace is the empty string are filed under one identifier:
\* one bucket holds both, and calculate_changes reports no namespace added
\* or deleted when one side has the null namespace and the other the empty
\* one.
C15_NullEmptyCollide ==
    /\ Gathered =>
          Cardinality(BucketsHolding(local[1], None)
                      \cup BucketsHolding(local[1], Some(""))) <= 1
    /\ (/\ Consumed
        /\ ~alias
        /\ Keys(Items1) \cap Blank # {}
        /\ Keys(Items2) \cap Blank # {})
       => \A ns \in Blank :
             /\ <<"add_ns", <<ns>>>> \notin Range(events)
             /\ <<"delete_ns", <<ns>>>> \notin Range(events)

\* C15 amended: the null identifier and the empty string are two
\* identifiers.  gather_objects files a record without metadata.namespace
\* in the null bucket and a record with an empty metadata.namespace in the
\* bucket of the empty string, and calculate_changes reports a blank
\* namespace that only one side has as deleted or added even when the other
\* side has the other blank one.
C15_NullEmptyDistinct ==
    /\ Gathered =>
          \A ns \in Blank : BucketsHolding(local[1], ns) \subseteq {ns}
    /\ Consumed =>
          \A ns \in Blank :
             /\ (ns \in Keys(Items1) /\ ns \notin Keys(Items2))
                => <<"delete_ns", <<ns>>>> \in Range(events)
             /\ (ns \in Keys(Items2) /\ ns \notin Keys(Items1))
                => <<"add_ns", <<ns>>>> \in Range(events)

\* The cluster has a cluster-scoped record, the local side a record whose
\* namespace is the empty string.
C15_Witness ==
    /\ Consumed
    /\ refs = <<Obj(Some("Namespace"), Absent, Some("b"), 0)>>
    /\ rendered = <<ConfigMap(Some(""), Some("x"), 0)>>
    /\ cluster[1].keys = <<None, Some("b")>>
    /\ local[1].keys = <<Some("")>>
    /\ events = << <<"delete_ns", <<None>>>>,
                   <<"add_ns", <<Some("")>>>>,
                   <<"delete_ns", <<Some("b")>>>> >>

NamespaceActions == {"add_ns", "delete_ns"}

\* C16: no two events carry the same arguments, so a namespace gets at most
\* one namespace-level event and a (namespace, kind, name) at most one
\* record-level event; a namespace with a namespace-level event gets no
\* record-level event.
C16_NoDuplicateEvents ==
    \A j1, j2 \in 1..Len(events) :
       j1 # j2 =>
          /\ events[j1][1] \in NamespaceActions \cup RecordActions
          /\ Len(events[j1][2]) = (IF events[j1][1] \in NamespaceActions THEN 1 ELSE 3)
          /\ events[j1][2] # events[j2][2]
          /\ (events[j1][1] \in NamespaceActions /\ events[j2][1] \in RecordActions)
             => events[j1][2][1] # events[j2][2][1]

\* Namespace a and its key x are on both sides, so the interleavers deliver
\* each twice; b is on the local side only.
C16_Witness ==
    /\ Consumed
    /\ refs = <<ConfigMap(Some("a"), Some("x"), 0)>>
    /\ rendered = <<ConfigMap(Some("a"), Some("x"), 1), ConfigMap(Some("b"), Some("x"), 0)>>
    /\ NsDrawn = <<Some("a"), Some("a"), Some("b")>>
    /\ KeysDrawn(Some("a")) = << <<"ConfigMap", Some("x")>>, <<"ConfigMap", Some("x")>> >>
    /\ events = << <<"change_obj", <<Some("a"), "ConfigMap", Some("x")>>>>,
                   <<"add_ns", <<Some("b")>>>> >>

\* Two hierarchies have the same namespace identifiers, the same keys in
\* every namespace and equal records under every key, in whatever order.
SameContent(d1, d2) ==
    /\ Keys(d1) = Keys(d2)
    /\ \A ns \in Keys(d1) :
          /\ Keys(od_get(d1, ns)) = Keys(od_get(d2, ns))
          /\ \A key \in Keys(od_get(d1, ns)) :
                od_get(od_get(d1, ns), key) = od_get(od_get(d2, ns), key)

\* C17: calculate_changes yields no event exactly when the two hierarchies
\* have the same content; found_changes is set and the exit status is 1
\* exactly when they differ, in quiet mode too.
C17_DifferenceComplete ==
    /\ Consumed => (events = <<>> <=> SameContent(Items1, Items2))
    /\ pc \in {"exit", "done"} => (found_changes <=> ~SameContent(Items1, Items2))
    /\ pc = "done" => exit_status = (IF SameContent(Items1, Items2) THEN 0 ELSE 1)

\* The two sides hold the same records in a different order.
C17_Witness ==
    /\ pc = "done"
    /\ ~alias
    /\ refs = <<ConfigMap(Some("a"), Some("x"), 0), ConfigMap(Some("b"), Some("x"), 0)>>
    /\ rendered = <<ConfigMap(Some("b"), Some("x"), 0), ConfigMap(Some("a"), Some("x"), 0)>>
    /\ cluster[1].keys # local[1].keys
    /\ events = <<>>
    /\ ~found_changes
    /\ exit_status = 0

\* Hierarchy d has a bucket for ns that holds key.
HasEntry(d, ns, key) == ns \in Keys(d) /\ key \in Keys(od_get(d, ns))

\* The entries event e names exist on the side or sides it speaks of.
NamesExisting(e) ==
    LET ns == e[2][1] IN
    IF e[1] = "add_ns" THEN ns \in Keys(Items2)
    ELSE IF e[1] = "delete_ns" THEN ns \in Keys(Items1)
    ELSE LET key == <<e[2][2], e[2][3]>> IN
         IF e[1] = "add_obj" THEN HasEntry(Items2, ns, key)
         ELSE IF e[1] = "delete_obj" THEN HasEntry(Items1, ns, key)
         ELSE /\ e[1] = "change_obj"
              /\ HasEntry(Items1, ns, key)
              /\ HasEntry(Items2, ns, key)

\* C18: every event names entries that exist: an added namespace or record
\* is in the local hierarchy, a deleted one in the cluster hierarchy, a
\* changed record in both; so local[ns], cluster[ns], cluster[ns][k,n] and
\* local[ns][k,n] of print_change never miss.  The only error of the loop
\* is the one of print_diff, which reads the name of a changed record that
\* has no name key, after those four lookups.
C18_EventsNameExisting ==
    /\ \A j \in 1..Len(events) : NamesExisting(events[j])
    /\ (pc = "error" /\ gen # None) =>
          LET e == events[Len(events)] IN
          /\ ~quiet
          /\ ~list_
          /\ e[1] = "change_obj"
          /\ e[2][3] = None
          /\ NamesExisting(e)
          /\ LET key == <<e[2][2], e[2][3]>>
             IN \/ od_get(od_get(Items1, e[2][1]), key).metadata[1].name = Absent
                \/ od_get(od_get(Items2, e[2][1]), key).metadata[1].name = Absent

\* One run of the full diff with a changed record and an added namespace,
\* both printed.
C18_Witness ==
    /\ Consumed
    /\ ~list_
    /\ refs = <<ConfigMap(Some("a"), Some("x"), 1)>>
    /\ rendered = <<ConfigMap(Some("a"), Some("x"), 0), ConfigMap(Some("b"), Some("x"), 0)>>
    /\ events = << <<"change_obj", <<Some("a"), "ConfigMap", Some("x")>>>>,
                   <<"add_ns", <<Some("b")>>>> >>

====
